---- MODULE Spec2Model ----
(***************************************************************************)
(* Model of github.com/postfinance/flash.                                  *)
(*                                                                         *)
(*  - Spec    : the Logger of flash.go (New, SetDebug, Disable, SetLevel,  *)
(*              stackTrace and logging through the embedded sugared        *)
(*              logger), in sequential use.                                *)
(*  - SpecEnc : the key-filtering encoder decorator of skip_encoder.go     *)
(*              (newSkipEncoder, skipEncoder.EncodeEntry) around a wrapped *)
(*              encoder.                                                   *)
(*  - SpecEncConc : concurrent EncodeEntry calls on one decorator, one     *)
(*              step per loop iteration.                                   *)
(*  - SpecClone : the operations the decorator inherits from the embedded  *)
(*              zapcore.Encoder (Clone, AddString) and the encoder Clone   *)
(*              returns.                                                   *)
(*  - SpecProm : the Logger with the prometheus hook of WithPrometheus and *)
(*              the counter it feeds.                                      *)
(*  - SpecURI : FileConfig.sinkURI, the parse of the URI and pathFromURI,  *)
(*              on paths as sequences of characters.                       *)
(*  - SpecLevelConc : goroutines calling SetLevel concurrently, one step   *)
(*              per lock, write and unlock.                                *)
(*  - SpecGetConc : the same goroutines, and goroutines that read the      *)
(*              embedded SugaredLogger through Get or a logging method.    *)
(***************************************************************************)
EXTENDS Integers, Sequences, FiniteSets, TLC

VARIABLES
    \* ---- inputs of New -------------------------------------------------
    opts,               \* the options handed to New, in call order
    isTerminal,         \* isatty.IsTerminal(os.Stdout.Fd())
    \* ---- Logger (flash.go:32-38) and what New built ---------------------
    constructed,        \* New has returned
    atom,               \* Logger.atom, the zap.AtomicLevel (effective level)
    currentLevel,       \* Logger.currentLevel
    disableStackTrace,  \* Logger.disableStackTrace
    addStack,           \* stacktrace threshold of the embedded SugaredLogger
    hooked,             \* the prometheus hook is attached to the logger
    metricName,         \* name of the counter the hook increments
    counter,            \* that counter's value, per level label
    enabledLogs,        \* log calls made while their level was enabled
    encoding,           \* zapConfig.Encoding
    colored,            \* EncodeLevel is the CapitalColorLevelEncoder
    \* ---- history of the calls on the Logger -----------------------------
    lastCall,           \* last New/SetDebug/Disable/SetLevel call that returned
    logged,             \* last log call since lastCall, or NoLog
    \* ---- skipEncoder (skip_encoder.go:8-11) ------------------------------
    encConstructed,     \* newSkipEncoder has returned
    called,             \* an EncodeEntry call has returned
    skipArg,            \* the skip ...string argument of newSkipEncoder
    Skip,               \* skipEncoder.Skip, the keys of the map
    wrappedRef,         \* skipEncoder.Encoder, the wrapped encoder it refers to
    argEntry,           \* entry argument of the last EncodeEntry call
    argFields,          \* fields argument of the last EncodeEntry call
    wrappedCalls,       \* calls the wrapped encoder received during that call
    ret,                \* what that EncodeEntry call returned
    \* ---- goroutines inside EncodeEntry (skip_encoder.go:32-44) ----------
    gpc,                \* where each goroutine is in EncodeEntry
    gArg,               \* the field sequence each caller passed
    gFields,            \* the caller's slice, as it is now
    gi,                 \* index of the range loop
    gFiltered,          \* the local slice filtered
    gHanded,            \* the fields the wrapped encoder received
    \* ---- the embedded zapcore.Encoder (skip_encoder.go:9) ---------------
    wrappedCtx,         \* fields added to the wrapped encoder so far
    lastOp,             \* last inherited operation invoked on the decorator
    cloneEnc,           \* the encoder the last Clone on the decorator returned
    cloneCalled,        \* EncodeEntry was called on that encoder
    cloneOut,           \* the fields that call serialised
    \* ---- the file sink URI (flash.go:301-307) ---------------------------
    uriPc,              \* how far the round trip of the path has come
    path,               \* FileConfig.Path, a sequence of characters
    uri,                \* what sinkURI returned
    parsed,             \* what url.ParseRequestURI returned
    extracted,          \* what pathFromURI returned
    \* ---- goroutines inside SetLevel (flash.go:257-272) ------------------
    mutex,              \* Logger.m: the goroutine holding it, or Unlocked
    lpc,                \* where each goroutine is in SetLevel
    lArg,               \* the level each goroutine passed
    lOld,               \* each goroutine's local oldLevel
    \* ---- goroutines reading the SugaredLogger field (flash.go:275-277) --
    rpc,                \* where each reader is
    rOp,                \* the method the reader called
    rGot,               \* the SugaredLogger it read, by its stacktrace level
    rDuring             \* whether stackTrace held the mutex at the read

loggerVars == <<opts, isTerminal, constructed, atom, currentLevel,
                disableStackTrace, addStack, hooked, metricName, counter,
                enabledLogs, encoding, colored, lastCall, logged>>
encVars    == <<encConstructed, called, skipArg, Skip, wrappedRef, argEntry,
                argFields, wrappedCalls, ret>>
encConcVars == <<gpc, gArg, gFields, gi, gFiltered, gHanded>>
cloneVars  == <<wrappedCtx, lastOp, cloneEnc, cloneCalled, cloneOut>>
uriVars    == <<uriPc, path, uri, parsed, extracted>>
levelConcVars == <<mutex, lpc, lArg, lOld>>
getConcVars == <<rpc, rOp, rGot, rDuring>>
vars       == <<loggerVars, encVars, encConcVars, cloneVars, uriVars,
                levelConcVars, getConcVars>>

(* What the actions of one component leave alone. *)
nonLoggerVars  == <<encVars, encConcVars, cloneVars, uriVars,
                   levelConcVars, getConcVars>>
nonEncVars     == <<loggerVars, encConcVars, cloneVars, uriVars,
                   levelConcVars, getConcVars>>
nonEncConcVars == <<loggerVars, encVars, cloneVars, uriVars,
                   levelConcVars, getConcVars>>
nonCloneVars   == <<loggerVars, encVars, encConcVars, uriVars,
                   levelConcVars, getConcVars>>
nonURIVars     == <<loggerVars, encVars, encConcVars, cloneVars,
                   levelConcVars, getConcVars>>
nonGetConcVars == <<loggerVars, encVars, encConcVars, cloneVars, uriVars,
                    levelConcVars>>

----------------------------------------------------------------------------
(* Bounds of the model.                                                    *)
MaxOpts   == 2      \* options per New call
MaxFields == 3      \* fields per EncodeEntry call
MaxSkip   == 2      \* excluded keys per newSkipEncoder call
MaxConcFields == 2  \* fields per EncodeEntry call of a goroutine
MaxLogs   == 2      \* log calls counted per logger
MaxPath   == 4      \* characters of a FileConfig.Path
MaxCtx    == 1      \* fields added to an encoder with AddString
MaxCloneFields == 2 \* fields per EncodeEntry call on a cloned encoder

----------------------------------------------------------------------------
(* zapcore levels, as used by flash.go.                                    *)
DebugLevel == -1
InfoLevel  == 0
ErrorLevel == 2
FatalLevel == 5

Levels    == DebugLevel..FatalLevel       \* Debug, Info, Warn, Error, DPanic, Panic, Fatal
LogLevels == DebugLevel..ErrorLevel       \* levels whose log call returns normally
NoStack   == FatalLevel + 1               \* threshold of a logger that never captures

(* The encoder types of flash.go:26-29. *)
Console == "console"
JSON    == "json"

----------------------------------------------------------------------------
(* Options (flash.go:43-123), as values New applies in order.              *)
PlainOptions ==
    {[opt |-> "WithEncoder", enc |-> e] : e \in {Console, JSON}}
    \cup {[opt |-> "WithDebug", debug |-> d] : d \in BOOLEAN}
    \cup {[opt |-> o] : o \in {"WithColor", "WithStacktrace", "WithFile"}}

(* WithPrometheus(appName, registry), all on one registry. *)
PrometheusOptions ==
    {[opt |-> "WithPrometheus", appName |-> a] : a \in {"", "app"}}

AllOptions == PlainOptions \cup PrometheusOptions

(* The options of the loggers that carry the prometheus hook. *)
HookOptions ==
    PrometheusOptions
    \cup {[opt |-> "WithStacktrace"], [opt |-> "WithDebug", debug |-> TRUE]}

NoMetric == "no counter"

(* Name: fmt.Sprintf("%s_log_messages_total", appName) (flash.go:97). *)
CounterName(appName) == appName \o "_log_messages_total"

SeqsUpTo(S, n) == UNION {[1..k -> S] : k \in 0..n}

(* DefaultConfig with stacktraces left enabled by default. *)
DefaultConfigStacktraceOn(tty) ==
    [enableColor       |-> FALSE,
     disableStacktrace |-> FALSE,
     isDebug           |-> FALSE,
     hook              |-> FALSE,
     metric            |-> NoMetric,
     registered        |-> {},
     panicked          |-> FALSE,
     fileConfig        |-> FALSE,
     encoder           |-> IF tty THEN Console ELSE JSON]

(* cfg := config{disableStacktrace: true, encoder: Console}, then the      *)
(* terminal detection of flash.go:146-150.                                 *)
DefaultConfig(tty) ==
    LET base == [enableColor       |-> FALSE,
                 disableStacktrace |-> TRUE,
                 isDebug           |-> FALSE,
                 hook              |-> FALSE,
                 metric            |-> NoMetric,
                 registered        |-> {},
                 panicked          |-> FALSE,
                 fileConfig        |-> FALSE,
                 encoder           |-> Console]
    IN  IF ~tty THEN [base EXCEPT !.encoder = JSON, !.enableColor = FALSE]
        ELSE base

(* WithPrometheus (flash.go:93-109): registry.MustRegister(counter)        *)
(* panics when the registry already holds a counter of that name;          *)
(* otherwise the hook that increments the new counter replaces c.hook.     *)
WithPrometheus(cfg, appName) ==
    LET name == CounterName(appName)
    IN  IF name \in cfg.registered
        THEN [cfg EXCEPT !.panicked = TRUE]
        ELSE [cfg EXCEPT !.registered = @ \cup {name},
                         !.hook = TRUE,
                         !.metric = name]

(* opt(&cfg) for one option. *)
ApplyOption(cfg, o) ==
    CASE o.opt = "WithEncoder"    -> [cfg EXCEPT !.encoder = o.enc]
      [] o.opt = "WithColor"      -> [cfg EXCEPT !.enableColor = TRUE]
      [] o.opt = "WithDebug"      -> [cfg EXCEPT !.isDebug = o.debug]
      [] o.opt = "WithStacktrace" -> [cfg EXCEPT !.disableStacktrace = FALSE]
      [] o.opt = "WithPrometheus" -> WithPrometheus(cfg, o.appName)
      [] o.opt = "WithFile"       -> [cfg EXCEPT !.fileConfig = TRUE]

(* The loop applying the options last to first. *)
RECURSIVE ApplyOptionsReversed(_, _, _)
ApplyOptionsReversed(cfg, os, i) ==
    IF i > Len(os) \/ cfg.panicked THEN cfg
    ELSE ApplyOptionsReversed(ApplyOption(cfg, os[Len(os) + 1 - i]), os, i + 1)

(* for _, opt := range opts { opt(&cfg) } (flash.go:152-154); a panicking  *)
(* option ends the loop.                                                   *)
RECURSIVE ApplyOptions(_, _, _)
ApplyOptions(cfg, os, i) ==
    IF i > Len(os) \/ cfg.panicked THEN cfg
    ELSE ApplyOptions(ApplyOption(cfg, os[i]), os, i + 1)

(* The configuration with enableColor left as the options set it. *)
ResolveColorKeeps(cfg) == cfg

(* flash.go:156-158: color only for the console encoder. *)
ResolveColor(cfg) ==
    IF cfg.encoder # Console THEN [cfg EXCEPT !.enableColor = FALSE] ELSE cfg

(* flash.go:204-214: the stacktrace threshold New leaves on the logger.    *)
NewStackLevel(cfg) ==
    IF cfg.disableStacktrace THEN NoStack
    ELSE IF cfg.isDebug THEN ErrorLevel ELSE FatalLevel

NoCall == [op |-> "none"]
NoLog  == [lvl |-> NoStack, emitted |-> FALSE, stack |-> FALSE, none |-> TRUE]

----------------------------------------------------------------------------
ZeroCount == [lvl \in LogLevels |-> 0]

(* New (flash.go:137-229). An option that panics leaves no Logger. *)
New ==
    /\ ~constructed
    /\ lastCall = NoCall
    /\ LET cfg == ResolveColor(ApplyOptions(DefaultConfig(isTerminal), opts, 1))
       IN  IF cfg.panicked
           THEN /\ lastCall' = [op |-> "New panicked"]
                /\ UNCHANGED <<constructed, atom, currentLevel,
                               disableStackTrace, addStack, hooked,
                               metricName, encoding, colored>>
           ELSE /\ atom' = IF cfg.isDebug THEN DebugLevel ELSE InfoLevel
                /\ currentLevel' = InfoLevel  \* zero value, not set by New
                /\ disableStackTrace' = cfg.disableStacktrace
                /\ addStack' = NewStackLevel(cfg)
                /\ hooked' = cfg.hook
                /\ metricName' = cfg.metric
                /\ encoding' = cfg.encoder
                /\ colored' = (cfg.enableColor /\ ~cfg.fileConfig)
                /\ constructed' = TRUE
                /\ lastCall' = [op |-> "New"]
    /\ logged' = NoLog
    /\ UNCHANGED <<opts, isTerminal, counter, enabledLogs, nonLoggerVars>>

(* stackTrace (flash.go:279-287): the threshold of the rebuilt logger.     *)
stackTrace(lvl) ==
    IF disableStackTrace THEN addStack ELSE lvl

(* SetDebug whose stackTrace builds the new logger without the hook. *)
SetDebugDropsHook(d) ==
    /\ constructed
    /\ LET level           == IF d THEN DebugLevel ELSE currentLevel
           stackTraceLevel == IF d THEN ErrorLevel ELSE FatalLevel
       IN  /\ atom' = level
           /\ addStack' = stackTrace(stackTraceLevel)
    /\ hooked' = IF disableStackTrace THEN hooked ELSE FALSE
    /\ lastCall' = [op |-> "SetDebug", d |-> d]
    /\ logged' = NoLog
    /\ UNCHANGED <<opts, isTerminal, constructed, currentLevel,
                   disableStackTrace, metricName, counter, enabledLogs,
                   encoding, colored, nonLoggerVars>>

(* SetDebug (flash.go:232-246). The logger stackTrace rebuilds keeps the   *)
(* core of the old one, and with it the hook.                              *)
SetDebug(d) ==
    /\ constructed
    /\ LET level           == IF d THEN DebugLevel ELSE currentLevel
           stackTraceLevel == IF d THEN ErrorLevel ELSE FatalLevel
       IN  /\ atom' = level
           /\ addStack' = stackTrace(stackTraceLevel)
    /\ lastCall' = [op |-> "SetDebug", d |-> d]
    /\ logged' = NoLog
    /\ UNCHANGED <<opts, isTerminal, constructed, currentLevel,
                   disableStackTrace, hooked, metricName, counter, enabledLogs,
                   encoding, colored, nonLoggerVars>>

(* Disable that sets currentLevel but never the atomic level. *)
DisableKeepsAtom ==
    /\ constructed
    /\ currentLevel' = FatalLevel
    /\ lastCall' = [op |-> "Disable"]
    /\ logged' = NoLog
    /\ UNCHANGED <<opts, isTerminal, constructed, atom, disableStackTrace,
                   addStack, hooked, metricName, counter, enabledLogs,
                   encoding, colored, nonLoggerVars>>

(* Disable (flash.go:249-254). *)
Disable ==
    /\ constructed
    /\ currentLevel' = FatalLevel
    /\ atom' = FatalLevel
    /\ lastCall' = [op |-> "Disable"]
    /\ logged' = NoLog
    /\ UNCHANGED <<opts, isTerminal, constructed, disableStackTrace, addStack,
                   hooked, metricName, counter, enabledLogs,
                   encoding, colored, nonLoggerVars>>

(* SetLevel that sets the atomic level but does not remember the level. *)
SetLevelForgetsCurrent(level) ==
    /\ constructed
    /\ atom' = level
    /\ addStack' =
         IF level = DebugLevel THEN stackTrace(ErrorLevel)
         ELSE IF currentLevel = DebugLevel /\ level # DebugLevel
              THEN stackTrace(FatalLevel)
              ELSE addStack
    /\ lastCall' = [op |-> "SetLevel", level |-> level]
    /\ logged' = NoLog
    /\ UNCHANGED <<opts, isTerminal, constructed, currentLevel,
                   disableStackTrace, hooked, metricName, counter, enabledLogs,
                   encoding, colored, nonLoggerVars>>

(* SetLevel (flash.go:257-272). *)
SetLevel(level) ==
    /\ constructed
    /\ LET oldLevel == currentLevel
       IN  /\ currentLevel' = level
           /\ atom' = level
           /\ addStack' =
                IF level = DebugLevel THEN stackTrace(ErrorLevel)
                ELSE IF oldLevel = DebugLevel /\ level # DebugLevel
                     THEN stackTrace(FatalLevel)
                     ELSE addStack
    /\ lastCall' = [op |-> "SetLevel", level |-> level]
    /\ logged' = NoLog
    /\ UNCHANGED <<opts, isTerminal, constructed, disableStackTrace,
                   hooked, metricName, counter, enabledLogs,
                   encoding, colored, nonLoggerVars>>

(* New was given a WithPrometheus option. *)
HasPrometheus(os) == \E i \in 1..Len(os) : os[i].opt = "WithPrometheus"

(* Sum of a per-level count. *)
RECURSIVE SumFrom(_, _)
SumFrom(c, lvl) ==
    IF lvl > ErrorLevel THEN 0 ELSE c[lvl] + SumFrom(c, lvl + 1)
TotalCount(c) == SumFrom(c, DebugLevel)

(* The level check of the logger's core: zapConfig.Level = atom            *)
(* (flash.go:167).                                                         *)
Enabled(lvl) == lvl >= atom

(* A log call (Debug, Info, Warn, Error) on the embedded SugaredLogger     *)
(* (flash.go:33): written when the atomic level enables it, with a         *)
(* stacktrace when its level reaches the AddStacktrace threshold.          *)
(* The hook of WithPrometheus (flash.go:104-107) runs for every entry the  *)
(* logger writes and increments the counter of the entry's level.          *)
Log(lvl) ==
    /\ constructed
    /\ (HasPrometheus(opts) /\ lvl >= atom) => TotalCount(enabledLogs) < MaxLogs
    /\ logged' = [lvl     |-> lvl,
                  emitted |-> Enabled(lvl),
                  stack   |-> Enabled(lvl) /\ lvl >= addStack,
                  none    |-> FALSE]
    /\ counter' = IF hooked /\ Enabled(lvl)
                  THEN [counter EXCEPT ![lvl] = @ + 1]
                  ELSE counter
    /\ enabledLogs' = IF HasPrometheus(opts) /\ lvl >= atom
                      THEN [enabledLogs EXCEPT ![lvl] = @ + 1]
                      ELSE enabledLogs
    /\ UNCHANGED <<opts, isTerminal, constructed, atom, currentLevel,
                   disableStackTrace, addStack, hooked, metricName,
                   encoding, colored, lastCall, nonLoggerVars>>

----------------------------------------------------------------------------
InitEncIdle ==
    /\ encConstructed = FALSE
    /\ called = FALSE
    /\ skipArg = <<>>
    /\ Skip = {}
    /\ wrappedRef = "nil"
    /\ argEntry = [Level |-> InfoLevel, Message |-> "m1",
                   Time |-> 1, Caller |-> "f.go:1"]
    /\ argFields = <<>>
    /\ wrappedCalls = <<>>
    /\ ret = [buf |-> <<"nil buffer">>, err |-> "nil"]

Goroutines == {1, 2}

InitEncConcIdle ==
    /\ gpc = [g \in Goroutines |-> "idle"]
    /\ gArg = [g \in Goroutines |-> <<>>]
    /\ gFields = [g \in Goroutines |-> <<>>]
    /\ gi = [g \in Goroutines |-> 1]
    /\ gFiltered = [g \in Goroutines |-> <<>>]
    /\ gHanded = [g \in Goroutines |-> <<>>]

NoOp    == [method |-> "none"]
NoClone == [kind |-> "none", ctx |-> <<>>, skip |-> {}]

InitCloneIdle ==
    /\ wrappedCtx = <<>>
    /\ lastOp = NoOp
    /\ cloneEnc = NoClone
    /\ cloneCalled = FALSE
    /\ cloneOut = <<>>

Unlocked == 0

InitLevelConcIdle ==
    /\ mutex = Unlocked
    /\ lpc = [g \in Goroutines |-> "idle"]
    /\ lArg = [g \in Goroutines |-> InfoLevel]
    /\ lOld = [g \in Goroutines |-> InfoLevel]

Readers == {3}

InitGetConcIdle ==
    /\ rpc = [r \in Readers |-> "idle"]
    /\ rOp = [r \in Readers |-> "Get"]
    /\ rGot = [r \in Readers |-> NoStack]
    /\ rDuring = [r \in Readers |-> FALSE]

NoURL == [err |-> "not parsed", Path |-> <<>>]

InitURIIdle ==
    /\ uriPc = "start"
    /\ path = <<>>
    /\ uri = <<>>
    /\ parsed = NoURL
    /\ extracted = <<>>

InitLoggerIdle ==
    /\ opts = <<>>
    /\ isTerminal = FALSE
    /\ constructed = FALSE
    /\ atom = InfoLevel
    /\ currentLevel = InfoLevel
    /\ disableStackTrace = TRUE
    /\ addStack = NoStack
    /\ hooked = FALSE
    /\ metricName = NoMetric
    /\ counter = ZeroCount
    /\ enabledLogs = ZeroCount
    /\ encoding = JSON
    /\ colored = FALSE
    /\ lastCall = NoCall
    /\ logged = NoLog

(* The Logger: any options, terminal or not, nothing constructed yet.      *)
Init ==
    /\ opts \in SeqsUpTo(PlainOptions, MaxOpts)
    /\ isTerminal \in BOOLEAN
    /\ constructed = FALSE
    /\ atom = InfoLevel
    /\ currentLevel = InfoLevel
    /\ disableStackTrace = TRUE
    /\ addStack = NoStack
    /\ hooked = FALSE
    /\ metricName = NoMetric
    /\ counter = ZeroCount
    /\ enabledLogs = ZeroCount
    /\ encoding = JSON
    /\ colored = FALSE
    /\ lastCall = NoCall
    /\ logged = NoLog
    /\ InitEncIdle
    /\ InitEncConcIdle
    /\ InitCloneIdle
    /\ InitURIIdle
    /\ InitLevelConcIdle
    /\ InitGetConcIdle

Next ==
    \/ New
    \/ \E d \in BOOLEAN : SetDebug(d)
    \/ Disable
    \/ \E level \in Levels : SetLevel(level)
    \/ \E lvl \in LogLevels : Log(lvl)

Spec == Init /\ [][Next]_vars

(* The Logger built with the options of the prometheus hook. *)
InitProm ==
    /\ opts \in SeqsUpTo(HookOptions, MaxOpts)
    /\ isTerminal = FALSE
    /\ constructed = FALSE
    /\ atom = InfoLevel
    /\ currentLevel = InfoLevel
    /\ disableStackTrace = TRUE
    /\ addStack = NoStack
    /\ hooked = FALSE
    /\ metricName = NoMetric
    /\ counter = ZeroCount
    /\ enabledLogs = ZeroCount
    /\ encoding = JSON
    /\ colored = FALSE
    /\ lastCall = NoCall
    /\ logged = NoLog
    /\ InitEncIdle
    /\ InitEncConcIdle
    /\ InitCloneIdle
    /\ InitURIIdle
    /\ InitLevelConcIdle
    /\ InitGetConcIdle

NextProm ==
    \/ New
    \/ \E d \in BOOLEAN : SetDebug(d)
    \/ Disable
    \/ \E level \in Levels : SetLevel(level)
    \/ \E lvl \in LogLevels : Log(lvl)

SpecProm == InitProm /\ [][NextProm]_vars

----------------------------------------------------------------------------
(* The key-filtering encoder decorator (skip_encoder.go).                  *)

Keys    == {"key1", "key2", "key3"}
(* zapcore.Field values. *)
Fields  == {[Key |-> "key1", Val |-> "a"], [Key |-> "key2", Val |-> "b"],
            [Key |-> "key3", Val |-> "c"]}
(* zapcore.Entry values. *)
Entries == [Level : {InfoLevel}, Message : {"m1"},
            Time : {1}, Caller : {"f.go:1", "g.go:2"}]

NilErr == "nil"
EncErr == "encode error"
NilBuf == <<"nil buffer">>

(* m := make(map...); for _, s := range skip { m[s] = struct{}{} }         *)
(* (skip_encoder.go:17-21): the key set of the map.                        *)
RECURSIVE BuildSkip(_, _, _)
BuildSkip(skip, i, m) ==
    IF i > Len(skip) THEN m
    ELSE BuildSkip(skip, i + 1, m \cup {skip[i]})

(* The loop with the kept fields prepended instead of appended. *)
RECURSIVE FilterFieldsPrepend(_, _, _, _)
FilterFieldsPrepend(fields, i, filtered, skip) ==
    IF i > Len(fields) THEN filtered
    ELSE IF fields[i].Key \in skip
         THEN FilterFieldsPrepend(fields, i + 1, filtered, skip)
         ELSE FilterFieldsPrepend(fields, i + 1, <<fields[i]>> \o filtered, skip)

(* The loop with the membership test inverted. *)
RECURSIVE FilterFieldsInverted(_, _, _, _)
FilterFieldsInverted(fields, i, filtered, skip) ==
    IF i > Len(fields) THEN filtered
    ELSE IF fields[i].Key \notin skip
         THEN FilterFieldsInverted(fields, i + 1, filtered, skip)
         ELSE FilterFieldsInverted(fields, i + 1, Append(filtered, fields[i]), skip)

(* The loop removing while iterating: the field after an excluded one is   *)
(* kept without being examined.                                            *)
RECURSIVE FilterFieldsSkipsNext(_, _, _, _)
FilterFieldsSkipsNext(fields, i, filtered, skip) ==
    IF i > Len(fields) THEN filtered
    ELSE IF fields[i].Key \in skip
         THEN IF i + 1 > Len(fields) THEN filtered
              ELSE FilterFieldsSkipsNext(fields, i + 2,
                                         Append(filtered, fields[i + 1]), skip)
         ELSE FilterFieldsSkipsNext(fields, i + 1,
                                    Append(filtered, fields[i]), skip)

(* The loop of EncodeEntry (skip_encoder.go:33-41). *)
RECURSIVE FilterFields(_, _, _, _)
FilterFields(fields, i, filtered, skip) ==
    IF i > Len(fields) THEN filtered
    ELSE IF fields[i].Key \in skip
         THEN FilterFields(fields, i + 1, filtered, skip)
         ELSE FilterFields(fields, i + 1, Append(filtered, fields[i]), skip)

(* The bytes the wrapped encoder writes for an entry and its fields: the   *)
(* entry's metadata followed by every field's key and value, in order.     *)
RECURSIVE EncodeFields(_, _)
EncodeFields(fields, i) ==
    IF i > Len(fields) THEN <<>>
    ELSE <<fields[i].Key, fields[i].Val>> \o EncodeFields(fields, i + 1)

(* e.Encoder.EncodeEntry (skip_encoder.go:43): the wrapped encoder either  *)
(* serialises what it is given or fails with an error and no buffer.       *)
WrappedEncodeEntry(entry, fields, werr) ==
    IF werr = NilErr
    THEN [buf |-> <<entry.Level, entry.Message, entry.Time, entry.Caller>>
                  \o EncodeFields(fields, 1),
          err |-> NilErr]
    ELSE [buf |-> NilBuf, err |-> werr]

(* The encoder newEncoder(cfg) returns (skip_encoder.go:24), and the nil   *)
(* reference of a decorator not built yet.                                 *)
NewEncoderRef == "wrapped encoder"
NilRef        == "nil"

(* newSkipEncoder (skip_encoder.go:16-27). *)
newSkipEncoder(skip) ==
    /\ ~encConstructed
    /\ encConstructed' = TRUE
    /\ skipArg' = skip
    /\ Skip' = BuildSkip(skip, 1, {})
    /\ wrappedRef' = NewEncoderRef
    /\ UNCHANGED <<called, argEntry, argFields, wrappedCalls, ret, nonEncVars>>

(* EncodeEntry that hands the wrapped encoder an entry without its caller. *)
EncodeEntryDropsCaller(entry, fields, werr) ==
    /\ encConstructed
    /\ LET filtered == FilterFields(fields, 1, <<>>, Skip)
           passed   == [entry EXCEPT !.Caller = ""]
           result   == WrappedEncodeEntry(passed, filtered, werr)
       IN  /\ wrappedCalls' = <<[entry  |-> passed,
                                 fields |-> filtered,
                                 result |-> result]>>
           /\ ret' = result
    /\ argEntry' = entry
    /\ argFields' = fields
    /\ called' = TRUE
    /\ UNCHANGED <<encConstructed, skipArg, Skip, wrappedRef, nonEncVars>>

(* EncodeEntry that returns the buffer but swallows the error. *)
EncodeEntrySwallowsError(entry, fields, werr) ==
    /\ encConstructed
    /\ LET filtered == FilterFields(fields, 1, <<>>, Skip)
           result   == WrappedEncodeEntry(entry, filtered, werr)
       IN  /\ wrappedCalls' = <<[entry  |-> entry,
                                 fields |-> filtered,
                                 result |-> result]>>
           /\ ret' = [result EXCEPT !.err = NilErr]
    /\ argEntry' = entry
    /\ argFields' = fields
    /\ called' = TRUE
    /\ UNCHANGED <<encConstructed, skipArg, Skip, wrappedRef, nonEncVars>>

(* skipEncoder.EncodeEntry (skip_encoder.go:32-44); werr is the outcome of *)
(* the wrapped encoder for this call.                                      *)
EncodeEntry(entry, fields, werr) ==
    /\ encConstructed
    /\ LET filtered == FilterFields(fields, 1, <<>>, Skip)
           result   == WrappedEncodeEntry(entry, filtered, werr)
       IN  /\ wrappedCalls' = <<[entry  |-> entry,
                                 fields |-> filtered,
                                 result |-> result]>>
           /\ ret' = result
    /\ argEntry' = entry
    /\ argFields' = fields
    /\ called' = TRUE
    /\ UNCHANGED <<encConstructed, skipArg, Skip, wrappedRef, nonEncVars>>

InitEnc ==
    /\ InitLoggerIdle
    /\ InitEncIdle
    /\ InitEncConcIdle
    /\ InitCloneIdle
    /\ InitURIIdle
    /\ InitLevelConcIdle
    /\ InitGetConcIdle

NextEnc ==
    \/ \E skip \in SeqsUpTo(Keys, MaxSkip) : newSkipEncoder(skip)
    \/ \E entry \in Entries, fields \in SeqsUpTo(Fields, MaxFields),
          werr \in {NilErr, EncErr} : EncodeEntry(entry, fields, werr)

SpecEnc == InitEnc /\ [][NextEnc]_vars

----------------------------------------------------------------------------
(* Concurrent EncodeEntry calls on one decorator (skip_encoder.go:32-44),  *)
(* one step per statement: the call, each iteration of the range loop and  *)
(* the call of the wrapped encoder.                                        *)

(* A goroutine calls EncodeEntry(entry, fields):                           *)
(* filtered := make([]zapcore.Field, 0, len(fields)).                      *)
EncodeEntryBegin(g, fields) ==
    /\ encConstructed
    /\ gpc[g] = "idle"
    /\ gpc' = [gpc EXCEPT ![g] = "loop"]
    /\ gArg' = [gArg EXCEPT ![g] = fields]
    /\ gFields' = [gFields EXCEPT ![g] = fields]
    /\ gi' = [gi EXCEPT ![g] = 1]
    /\ gFiltered' = [gFiltered EXCEPT ![g] = <<>>]
    /\ gHanded' = [gHanded EXCEPT ![g] = <<>>]
    /\ UNCHANGED <<nonEncConcVars>>

(* One iteration that filters in place: filtered := fields[:0] shares the  *)
(* caller's backing array, so a kept field is written into it.             *)
EncodeEntryLoopInPlace(g) ==
    /\ gpc[g] = "loop"
    /\ gi[g] <= Len(gFields[g])
    /\ LET field == gFields[g][gi[g]]
       IN  IF field.Key \in Skip
           THEN UNCHANGED <<gFiltered, gFields>>
           ELSE /\ gFiltered' = [gFiltered EXCEPT ![g] = Append(@, field)]
                /\ gFields' = [gFields EXCEPT
                                 ![g][Len(gFiltered[g]) + 1] = gFields[g][Len(gFields[g])]]
    /\ gi' = [gi EXCEPT ![g] = @ + 1]
    /\ UNCHANGED <<gpc, gArg, gHanded, nonEncConcVars>>

(* One iteration of for _, field := range fields (skip_encoder.go:35-41). *)
EncodeEntryLoop(g) ==
    /\ gpc[g] = "loop"
    /\ gi[g] <= Len(gFields[g])
    /\ LET field == gFields[g][gi[g]]
       IN  IF field.Key \in Skip
           THEN UNCHANGED gFiltered
           ELSE gFiltered' = [gFiltered EXCEPT ![g] = Append(@, field)]
    /\ gi' = [gi EXCEPT ![g] = @ + 1]
    /\ UNCHANGED <<gpc, gArg, gFields, gHanded, nonEncConcVars>>

(* return e.Encoder.EncodeEntry(entry, filtered) (skip_encoder.go:43). *)
EncodeEntryCall(g) ==
    /\ gpc[g] = "loop"
    /\ gi[g] > Len(gFields[g])
    /\ gHanded' = [gHanded EXCEPT ![g] = gFiltered[g]]
    /\ gpc' = [gpc EXCEPT ![g] = "done"]
    /\ UNCHANGED <<gArg, gFields, gi, gFiltered, nonEncConcVars>>

(* The caller takes the result and drops its slices; the goroutine may    *)
(* call again.                                                             *)
EncodeEntryReturn(g) ==
    /\ gpc[g] = "done"
    /\ gpc' = [gpc EXCEPT ![g] = "idle"]
    /\ gArg' = [gArg EXCEPT ![g] = <<>>]
    /\ gFields' = [gFields EXCEPT ![g] = <<>>]
    /\ gi' = [gi EXCEPT ![g] = 1]
    /\ gFiltered' = [gFiltered EXCEPT ![g] = <<>>]
    /\ gHanded' = [gHanded EXCEPT ![g] = <<>>]
    /\ UNCHANGED <<nonEncConcVars>>

(* The fields the concurrent callers pass. *)
ConcFields == {f \in Fields : f.Key \in {"key1", "key2"}}

InitEncConc ==
    /\ InitLoggerIdle
    /\ InitEncIdle
    /\ InitEncConcIdle
    /\ InitCloneIdle
    /\ InitURIIdle
    /\ InitLevelConcIdle
    /\ InitGetConcIdle

NextEncConc ==
    \/ \E skip \in SeqsUpTo(Keys, MaxSkip) : newSkipEncoder(skip)
    \/ \E g \in Goroutines, fields \in SeqsUpTo(ConcFields, MaxConcFields) :
          EncodeEntryBegin(g, fields)
    \/ \E g \in Goroutines : EncodeEntryLoop(g)
    \/ \E g \in Goroutines : EncodeEntryCall(g)
    \/ \E g \in Goroutines : EncodeEntryReturn(g)

SpecEncConc == InitEncConc /\ [][NextEncConc]_vars

----------------------------------------------------------------------------
(* The operations the decorator does not define itself. skipEncoder embeds *)
(* zapcore.Encoder (skip_encoder.go:8-11) and declares one method,         *)
(* EncodeEntry (skip_encoder.go:32); every other method of the interface   *)
(* is promoted from the embedded field, i.e. runs on the wrapped encoder.  *)

(* A decorator that also declares Clone. *)
MethodOwnerWithClone(method) ==
    IF method \in {"EncodeEntry", "Clone"} THEN "skipEncoder" ELSE "Encoder"

(* Which type's method a call on *skipEncoder resolves to. *)
MethodOwner(method) ==
    IF method \in {"EncodeEntry"} THEN "skipEncoder" ELSE "Encoder"

(* Clone of the wrapped encoder: an encoder of the wrapped kind that       *)
(* carries the fields added so far and filters nothing.                    *)
WrappedClone(ctx) == [kind |-> "Encoder", ctx |-> ctx, skip |-> {}]

(* AddString(key, val) invoked on the decorator. *)
AddString(field) ==
    /\ encConstructed
    /\ Len(wrappedCtx) < MaxCtx
    /\ wrappedCtx' = IF MethodOwner("AddString") = "Encoder"
                     THEN Append(wrappedCtx, field)
                     ELSE wrappedCtx
    /\ lastOp' = [method |-> "AddString", arg |-> field, result |-> NoClone,
                  before |-> wrappedCtx, after |-> wrappedCtx']
    /\ UNCHANGED <<cloneEnc, cloneCalled, cloneOut,
                   nonCloneVars>>

(* Clone() invoked on the decorator. *)
Clone ==
    /\ encConstructed
    /\ cloneEnc' = IF MethodOwner("Clone") = "Encoder"
                   THEN WrappedClone(wrappedCtx)
                   ELSE [kind |-> "skipEncoder", ctx |-> wrappedCtx,
                         skip |-> Skip]
    /\ cloneCalled' = FALSE
    /\ cloneOut' = <<>>
    /\ lastOp' = [method |-> "Clone", arg |-> NoClone, result |-> cloneEnc',
                  before |-> wrappedCtx, after |-> wrappedCtx]
    /\ UNCHANGED <<wrappedCtx, nonCloneVars>>

(* EncodeEntry(entry, fields) on the encoder Clone returned: an encoder of *)
(* the wrapped kind serialises its own fields and every field it is given; *)
(* a skipEncoder would filter first.                                       *)
CloneEncodeEntry(fields) ==
    /\ cloneEnc.kind # "none"
    /\ cloneOut' = cloneEnc.ctx \o
                   (IF cloneEnc.kind = "skipEncoder"
                    THEN FilterFields(fields, 1, <<>>, cloneEnc.skip)
                    ELSE fields)
    /\ cloneCalled' = TRUE
    /\ UNCHANGED <<wrappedCtx, lastOp, cloneEnc,
                   nonCloneVars>>

InitClone ==
    /\ InitLoggerIdle
    /\ InitEncIdle
    /\ InitEncConcIdle
    /\ InitCloneIdle
    /\ InitURIIdle
    /\ InitLevelConcIdle
    /\ InitGetConcIdle

NextClone ==
    \/ \E skip \in SeqsUpTo(Keys, MaxSkip) : newSkipEncoder(skip)
    \/ \E field \in ConcFields : AddString(field)
    \/ Clone
    \/ \E fields \in SeqsUpTo(ConcFields, MaxCloneFields) :
          CloneEncodeEntry(fields)

SpecClone == InitClone /\ [][NextClone]_vars

----------------------------------------------------------------------------
(* The file sink URI (flash.go:301-307) and its parse, as flash_uri_test   *)
(* runs them: sinkURI, url.ParseRequestURI, pathFromURI. Strings are       *)
(* sequences of one-character strings.                                     *)

(* The characters of the paths: separators, dot, drive colon, a letter,    *)
(* and the characters a URI gives a meaning to.                            *)
PathChars == {"/", ".", "\\", ":", "t", "?", "%", "2", "F"}

(* lumberjackSinkURIPrefix (flash.go:19). *)
lumberjackSinkURIPrefix == <<"l", "u", "m", "b", "e", "r", "j", "a", "c", "k">>

(* fmt.Sprintf("%s://localhost/%s", lumberjackSinkURIPrefix, cfg.Path). *)
sinkURIOf(p) ==
    lumberjackSinkURIPrefix \o <<":", "/", "/">>
        \o <<"l", "o", "c", "a", "l", "h", "o", "s", "t">> \o <<"/">> \o p

(* strings.Index for one character: 0 when absent. *)
IndexOf(str, c) ==
    IF \E i \in 1..Len(str) : str[i] = c
    THEN CHOOSE i \in 1..Len(str) :
            str[i] = c /\ \A j \in 1..(i - 1) : str[j] # c
    ELSE 0

HasPrefix2(str, c) == Len(str) >= 2 /\ str[1] = c /\ str[2] = c

(* The hexadecimal digits among the characters, and their values. *)
IsHex(c) == c \in {"2", "F"}
Unhex(c) == IF c = "2" THEN 2 ELSE 15

(* The character of a decoded byte. *)
ByteChar(n) ==
    CASE n = 34  -> "\""
      [] n = 47  -> "/"
      [] n = 242 -> "0xF2"
      [] n = 255 -> "0xFF"

(* net/url unescape in path mode: a % must be followed by two hex digits,  *)
(* which it replaces by the byte they encode.                              *)
RECURSIVE EscapesValid(_, _)
EscapesValid(str, i) ==
    IF i > Len(str) THEN TRUE
    ELSE IF str[i] = "%"
         THEN /\ i + 2 <= Len(str)
              /\ IsHex(str[i + 1])
              /\ IsHex(str[i + 2])
              /\ EscapesValid(str, i + 3)
         ELSE EscapesValid(str, i + 1)

RECURSIVE Unescape(_, _)
Unescape(str, i) ==
    IF i > Len(str) THEN <<>>
    ELSE IF str[i] = "%"
         THEN <<ByteChar(16 * Unhex(str[i + 1]) + Unhex(str[i + 2]))>>
              \o Unescape(str, i + 3)
         ELSE <<str[i]>> \o Unescape(str, i + 1)

(* url.ParseRequestURI on a URI with a scheme: the scheme up to the first  *)
(* colon, the query cut off at the first ?, the authority between // and   *)
(* the next slash, and the rest unescaped into Path.                       *)
ParseURI(raw) ==
    LET colon     == IndexOf(raw, ":")
        afterSch  == SubSeq(raw, colon + 1, Len(raw))
        q         == IndexOf(afterSch, "?")
        rest      == IF q = 0 THEN afterSch ELSE SubSeq(afterSch, 1, q - 1)
        authority == SubSeq(rest, 3, Len(rest))
        slash     == IndexOf(authority, "/")
        rawPath   == IF ~HasPrefix2(rest, "/") THEN rest
                     ELSE IF slash = 0 THEN <<>>
                     ELSE SubSeq(authority, slash, Len(authority))
    IN  IF EscapesValid(rawPath, 1)
        THEN [err |-> "nil", Path |-> Unescape(rawPath, 1)]
        ELSE [err |-> "invalid URL escape", Path |-> <<>>]

(* strings.Replace(u.Path, "/", "", 1) (flash.go:306). *)
pathFromURIOf(p) ==
    LET i == IndexOf(p, "/")
    IN  IF i = 0 THEN p
        ELSE SubSeq(p, 1, i - 1) \o SubSeq(p, i + 1, Len(p))

(* FileConfig.sinkURI (flash.go:301-303). *)
sinkURI ==
    /\ uriPc = "start"
    /\ uri' = sinkURIOf(path)
    /\ uriPc' = "built"
    /\ UNCHANGED <<path, parsed, extracted, nonURIVars>>

(* url.ParseRequestURI(tc.fileConfig.sinkURI()) (flash_uri_test.go:42). *)
ParseRequestURI ==
    /\ uriPc = "built"
    /\ parsed' = ParseURI(uri)
    /\ uriPc' = IF parsed'.err = "nil" THEN "parsed" ELSE "failed"
    /\ UNCHANGED <<path, uri, extracted, nonURIVars>>

(* pathFromURI (flash.go:305-307). *)
pathFromURI ==
    /\ uriPc = "parsed"
    /\ extracted' = pathFromURIOf(parsed.Path)
    /\ uriPc' = "done"
    /\ UNCHANGED <<path, uri, parsed, nonURIVars>>

InitURI ==
    /\ InitLoggerIdle
    /\ InitEncIdle
    /\ InitEncConcIdle
    /\ InitCloneIdle
    /\ InitLevelConcIdle
    /\ InitGetConcIdle
    /\ uriPc = "start"
    /\ path \in SeqsUpTo(PathChars, MaxPath)
    /\ uri = <<>>
    /\ parsed = NoURL
    /\ extracted = <<>>

NextURI ==
    \/ sinkURI
    \/ ParseRequestURI
    \/ pathFromURI

SpecURI == InitURI /\ [][NextURI]_vars

----------------------------------------------------------------------------
(* Goroutines calling SetLevel concurrently (flash.go:257-272), one step   *)
(* per statement that other goroutines can observe: taking the mutex, the  *)
(* writes made under it together with its release, and the store to the    *)
(* atomic level, which SetLevel makes after the unlock.                    *)

(* The levels the concurrent callers pass. *)
ConcLevels == {DebugLevel, InfoLevel, ErrorLevel}

loggerFields == <<opts, isTerminal, constructed, disableStackTrace, hooked,
                  metricName, counter, enabledLogs, encoding, colored,
                  lastCall, logged>>

(* A goroutine calls SetLevel(level). *)
SetLevelBegin(g, level) ==
    /\ constructed
    /\ lpc[g] \in {"idle", "returned"}
    /\ lArg' = [lArg EXCEPT ![g] = level]
    /\ lpc' = [lpc EXCEPT ![g] = "lock"]
    /\ UNCHANGED <<mutex, lOld, atom, currentLevel, addStack, loggerFields,
                   encVars, encConcVars, cloneVars, uriVars, getConcVars>>

(* l.m.Lock() (flash.go:258). *)
SetLevelLock(g) ==
    /\ lpc[g] = "lock"
    /\ mutex = Unlocked
    /\ mutex' = g
    /\ lpc' = [lpc EXCEPT ![g] = "remember"]
    /\ UNCHANGED <<lArg, lOld, atom, currentLevel, addStack, loggerFields,
                   encVars, encConcVars, cloneVars, uriVars, getConcVars>>

(* oldLevel := l.currentLevel; l.currentLevel = level; l.m.Unlock()        *)
(* (flash.go:259-261).                                                     *)
SetLevelRemember(g) ==
    /\ lpc[g] = "remember"
    /\ mutex = g
    /\ lOld' = [lOld EXCEPT ![g] = currentLevel]
    /\ currentLevel' = lArg[g]
    /\ mutex' = Unlocked
    /\ lpc' = [lpc EXCEPT ![g] = "atom"]
    /\ UNCHANGED <<lArg, atom, addStack, loggerFields,
                   encVars, encConcVars, cloneVars, uriVars, getConcVars>>

(* l.atom.SetLevel(level) and the choice of the stacktrace level           *)
(* (flash.go:262-271); stackTrace returns at once when stacktraces are     *)
(* disabled (flash.go:280-282).                                            *)
SetLevelAtom(g) ==
    /\ lpc[g] = "atom"
    /\ atom' = lArg[g]
    /\ lpc' = [lpc EXCEPT ![g] =
                 IF disableStackTrace THEN "returned"
                 ELSE IF lArg[g] = DebugLevel THEN "stackTraceError"
                 ELSE IF lOld[g] = DebugLevel THEN "stackTraceFatal"
                 ELSE "returned"]
    /\ UNCHANGED <<mutex, lArg, lOld, currentLevel, addStack, loggerFields,
                   encVars, encConcVars, cloneVars, uriVars, getConcVars>>

(* l.m.Lock() in stackTrace (flash.go:284). *)
StackTraceLock(g) ==
    /\ lpc[g] \in {"stackTraceError", "stackTraceFatal"}
    /\ mutex = Unlocked
    /\ mutex' = g
    /\ UNCHANGED <<lpc, lArg, lOld, atom, currentLevel, addStack, loggerFields,
                   encVars, encConcVars, cloneVars, uriVars, getConcVars>>

(* l.SugaredLogger = ...AddStacktrace(lvl)...; l.m.Unlock()                *)
(* (flash.go:285-286).                                                     *)
StackTraceSwap(g) ==
    /\ lpc[g] \in {"stackTraceError", "stackTraceFatal"}
    /\ mutex = g
    /\ addStack' = IF lpc[g] = "stackTraceError" THEN ErrorLevel ELSE FatalLevel
    /\ mutex' = Unlocked
    /\ lpc' = [lpc EXCEPT ![g] = "returned"]
    /\ UNCHANGED <<lArg, lOld, atom, currentLevel, loggerFields,
                   encVars, encConcVars, cloneVars, uriVars, getConcVars>>

(* A Logger with or without stacktraces, nothing constructed yet. *)
InitLevelConc ==
    /\ opts \in {<<>>, <<[opt |-> "WithStacktrace"]>>}
    /\ isTerminal = FALSE
    /\ constructed = FALSE
    /\ atom = InfoLevel
    /\ currentLevel = InfoLevel
    /\ disableStackTrace = TRUE
    /\ addStack = NoStack
    /\ hooked = FALSE
    /\ metricName = NoMetric
    /\ counter = ZeroCount
    /\ enabledLogs = ZeroCount
    /\ encoding = JSON
    /\ colored = FALSE
    /\ lastCall = NoCall
    /\ logged = NoLog
    /\ InitEncIdle
    /\ InitEncConcIdle
    /\ InitCloneIdle
    /\ InitURIIdle
    /\ InitLevelConcIdle
    /\ InitGetConcIdle

NextLevelConc ==
    \/ New
    \/ \E g \in Goroutines, level \in ConcLevels : SetLevelBegin(g, level)
    \/ \E g \in Goroutines : SetLevelLock(g)
    \/ \E g \in Goroutines : SetLevelRemember(g)
    \/ \E g \in Goroutines : SetLevelAtom(g)
    \/ \E g \in Goroutines : StackTraceLock(g)
    \/ \E g \in Goroutines : StackTraceSwap(g)

SpecLevelConc == InitLevelConc /\ [][NextLevelConc]_vars

----------------------------------------------------------------------------
(* Goroutines reading the embedded SugaredLogger while others are inside   *)
(* SetLevel.  Get returns the field without taking the mutex               *)
(* (flash.go:275-277); a logging method such as l.Info is promoted from    *)
(* the embedded *zap.SugaredLogger (flash.go:33) and loads the same field  *)
(* the same way.                                                           *)

ReadOps == {"Get", "Log"}

(* The goroutine inside stackTrace's critical section, if there is one. *)
Replacing(g) ==
    /\ mutex = g
    /\ lpc[g] \in {"stackTraceError", "stackTraceFatal"}

(* The SugaredLogger that goroutine g is about to store (flash.go:285). *)
Replacement(g) ==
    IF lpc[g] = "stackTraceError" THEN ErrorLevel ELSE FatalLevel

(* The values an unlocked load of the field can yield: the stored one, or  *)
(* the one being stored when the load races with the store.                *)
FieldLoads ==
    {addStack} \cup {Replacement(g) : g \in {h \in Goroutines : Replacing(h)}}

(* A reader calls Get() or a logging method. *)
GetBegin(r, op) ==
    /\ constructed
    /\ rpc[r] \in {"idle", "returned"}
    /\ rOp' = [rOp EXCEPT ![r] = op]
    /\ rpc' = [rpc EXCEPT ![r] = "load"]
    /\ UNCHANGED <<rGot, rDuring, nonGetConcVars>>

(* return l.SugaredLogger (flash.go:276): no lock is taken. *)
Get(r) ==
    /\ rpc[r] = "load"
    /\ \E v \in FieldLoads : rGot' = [rGot EXCEPT ![r] = v]
    /\ rDuring' = [rDuring EXCEPT ![r] = \E g \in Goroutines : Replacing(g)]
    /\ rpc' = [rpc EXCEPT ![r] = "returned"]
    /\ UNCHANGED <<rOp, nonGetConcVars>>

NextGetConc ==
    \/ NextLevelConc
    \/ \E r \in Readers, op \in ReadOps : GetBegin(r, op)
    \/ \E r \in Readers : Get(r)

SpecGetConc == InitLevelConc /\ [][NextGetConc]_vars

----------------------------------------------------------------------------
(* Properties of the key-filtering encoder, checked under SpecEnc.         *)

SkipSet == {skipArg[i] : i \in 1..Len(skipArg)}
KeyKept(f) == f.Key \notin SkipSet
Field1 == [Key |-> "key1", Val |-> "a"]
Field2 == [Key |-> "key2", Val |-> "b"]
Field3 == [Key |-> "key3", Val |-> "c"]

(* C1: EncodeEntry calls the wrapped encoder exactly once, with the        *)
(* subsequence of the caller's fields whose key is not among the excluded  *)
(* keys given to newSkipEncoder, in their original order.                  *)
C1_FilteredSubsequence ==
    called =>
        /\ Len(wrappedCalls) = 1
        /\ wrappedCalls[1].fields = SelectSeq(argFields, KeyKept)

(* The scenario of C1: S = {key1, key3}, F = [key1, key2, key3] gives      *)
(* [key2].                                                                 *)
C1_Witness ==
    /\ called
    /\ skipArg = <<"key1", "key3">>
    /\ argFields = <<Field1, Field2, Field3>>
    /\ Len(wrappedCalls) = 1
    /\ wrappedCalls[1].fields = <<Field2>>

(* C8: the entry the wrapped encoder receives is the caller's entry,       *)
(* unchanged, whatever the exclusion set and the fields.                   *)
C8_EntryUnchanged ==
    called =>
        /\ wrappedCalls # <<>>
        /\ \A i \in 1..Len(wrappedCalls) : wrappedCalls[i].entry = argEntry

(* A call that filtered fields away and carried the second caller.         *)
C8_Witness ==
    /\ called
    /\ argEntry.Caller = "g.go:2"
    /\ Len(argFields) = MaxFields
    /\ wrappedCalls # <<>>
    /\ Len(wrappedCalls[1].fields) < Len(argFields)
    /\ wrappedCalls[1].entry.Caller = "g.go:2"

(* C9: EncodeEntry returns the (buffer, error) pair of the wrapped         *)
(* encoder's call: an error exactly when the wrapped encoder returned one, *)
(* and then that same error.                                               *)
C9_ResultPropagated ==
    called =>
        /\ wrappedCalls # <<>>
        /\ ret.buf = wrappedCalls[Len(wrappedCalls)].result.buf
        /\ ret.err = wrappedCalls[Len(wrappedCalls)].result.err

(* A call in which the wrapped encoder failed. *)
C9_Witness ==
    /\ called
    /\ wrappedCalls # <<>>
    /\ wrappedCalls[1].result.err = EncErr
    /\ ret.err = EncErr
    /\ Skip # {}

(* C10: with an empty list of excluded keys the decorator passes through:  *)
(* the wrapped encoder receives the caller's fields themselves and a       *)
(* successful result is the wrapped encoder's encoding of the unfiltered   *)
(* sequence.                                                               *)
C10_EmptySkipPassThrough ==
    (called /\ skipArg = <<>>) =>
        /\ Len(wrappedCalls) = 1
        /\ wrappedCalls[1].fields = argFields
        /\ ret.err = NilErr =>
             ret.buf = <<argEntry.Level, argEntry.Message, argEntry.Time,
                         argEntry.Caller>> \o EncodeFields(argFields, 1)

(* A pass-through call with fields to pass. *)
C10_Witness ==
    /\ called
    /\ skipArg = <<>>
    /\ argFields = <<Field3, Field1, Field1>>
    /\ ret.err = NilErr
    /\ Len(ret.buf) = 10

(* C11: filtering is idempotent: the decorator's filter applied to the     *)
(* sequence it handed to the wrapped encoder yields that same sequence.    *)
C11_FilterIdempotent ==
    called =>
        /\ wrappedCalls # <<>>
        /\ FilterFields(wrappedCalls[1].fields, 1, <<>>, Skip)
             = wrappedCalls[1].fields

(* A call that removed two adjacent excluded fields and kept a third.      *)
C11_Witness ==
    /\ called
    /\ Skip = {"key1"}
    /\ argFields = <<Field1, Field1, Field2>>
    /\ wrappedCalls # <<>>
    /\ wrappedCalls[1].fields = <<Field2>>
    /\ FilterFields(<<Field2>>, 1, <<>>, Skip) = <<Field2>>

----------------------------------------------------------------------------
(* Properties of concurrent EncodeEntry calls, checked under SpecEncConc.  *)

(* C12: no EncodeEntry call changes the exclusion set, the wrapped-encoder *)
(* reference or the caller's field sequence, and under any interleaving    *)
(* each call hands the wrapped encoder the filtered sequence it hands over *)
(* when run alone.                                                         *)
C12_ConcurrentCallsIndependent ==
    encConstructed =>
        /\ Skip = SkipSet
        /\ wrappedRef = NewEncoderRef
        /\ \A g \in Goroutines :
              /\ gpc[g] # "idle" => gFields[g] = gArg[g]
              /\ gpc[g] = "done" =>
                    gHanded[g] = FilterFields(gArg[g], 1, <<>>, Skip)

(* Two calls in flight at once, both inside their loops with fields        *)
(* already dropped or kept, one of them done.                              *)
C12_Witness ==
    /\ encConstructed
    /\ Skip = {"key1"}
    /\ gpc[1] = "loop"
    /\ gArg[1] = <<Field2, Field1>>
    /\ gi[1] = 2
    /\ gpc[2] = "done"
    /\ gArg[2] = <<Field1, Field2>>
    /\ gHanded[2] = <<Field2>>

----------------------------------------------------------------------------
(* Properties of the inherited operations, checked under SpecClone.        *)

(* C13: Clone and the field-adding methods invoked on the decorator have   *)
(* the result and the effect on the wrapped encoder of the same operation  *)
(* invoked on the wrapped encoder directly.                                *)
C13_InheritedOpsDelegate ==
    /\ lastOp.method = "Clone" =>
          /\ lastOp.result = [kind |-> "Encoder", ctx |-> lastOp.before,
                              skip |-> {}]
          /\ lastOp.after = lastOp.before
    /\ lastOp.method = "AddString" =>
          lastOp.after = Append(lastOp.before, lastOp.arg)

(* Clone on a filtering decorator whose wrapped encoder carries a field.   *)
C13_Witness ==
    /\ lastOp.method = "Clone"
    /\ Skip = {"key1"}
    /\ lastOp.before = <<Field2>>
    /\ cloneEnc.kind = "Encoder"
    /\ cloneEnc.ctx = <<Field2>>

(* C19: an encoder obtained by Clone on the decorator still omits, in its  *)
(* EncodeEntry, every field whose key is in the exclusion set.             *)
C19_CloneKeepsFiltering ==
    cloneCalled =>
        \A i \in 1..Len(cloneOut) :
            (i > Len(cloneEnc.ctx)) => cloneOut[i].Key \notin Skip

----------------------------------------------------------------------------
(* Properties of the file sink URI, checked under SpecURI.                 *)

(* C15: for every FileConfig.Path, parsing sinkURI() as a request URI and  *)
(* applying pathFromURI to it returns exactly the original Path.           *)
C15_PathRoundTrip ==
    uriPc \in {"failed", "done"} =>
        /\ parsed.err = "nil"
        /\ extracted = path

----------------------------------------------------------------------------
(* Properties of concurrent SetLevel calls, checked under SpecLevelConc.   *)

(* C20: when the SetLevel calls of several goroutines have all returned,   *)
(* the atomic level equals the remembered currentLevel.                    *)
C20_LevelsAgreeAfterSetLevel ==
    (/\ \A g \in Goroutines : lpc[g] \in {"idle", "returned"}
     /\ \E g \in Goroutines : lpc[g] = "returned") =>
        atom = currentLevel

----------------------------------------------------------------------------
(* Properties of readers of the SugaredLogger field, checked under         *)
(* SpecGetConc.                                                            *)

(* C21: a Get() or logging call running concurrently with SetLevel never   *)
(* reads the SugaredLogger field while stackTrace is replacing it.         *)
C21_NoReadDuringReplace ==
    \A r \in Readers : rpc[r] = "returned" => ~rDuring[r]

----------------------------------------------------------------------------
(* Properties of the Logger, checked under Spec.                           *)

(* C2: with WithStacktrace, the stacktrace threshold is ErrorLevel exactly *)
(* when the effective level is DebugLevel and FatalLevel otherwise, in     *)
(* every state reachable by SetDebug, SetLevel and Disable calls.          *)
C2_ThresholdFollowsLevel ==
    (constructed /\ ~disableStackTrace) =>
        addStack = IF atom = DebugLevel THEN ErrorLevel ELSE FatalLevel

(* C3: after SetDebug(true) the effective level is DebugLevel, and after   *)
(* SetDebug(false) DebugLevel is not enabled, whatever calls preceded.     *)
C3_SetDebugTogglesDebug ==
    lastCall.op = "SetDebug" =>
        /\ lastCall.d => atom = DebugLevel
        /\ ~lastCall.d => ~Enabled(DebugLevel)

(* C4: with stacktraces enabled, after SetLevel(l) the stacktrace          *)
(* threshold is ErrorLevel if l is DebugLevel and FatalLevel otherwise,    *)
(* whatever calls preceded.                                                *)
C4_SetLevelAdjustsThreshold ==
    (lastCall.op = "SetLevel" /\ ~disableStackTrace) =>
        addStack = IF lastCall.level = DebugLevel THEN ErrorLevel
                   ELSE FatalLevel

(* C5: after SetLevel(l) the effective level and currentLevel both equal   *)
(* l; a message logged then is emitted exactly when its level is at or     *)
(* above l.                                                                *)
C5_SetLevelSetsBoth ==
    lastCall.op = "SetLevel" =>
        /\ atom = lastCall.level
        /\ currentLevel = lastCall.level
        /\ ~logged.none => (logged.emitted <=> logged.lvl >= lastCall.level)

(* SetLevel(ErrorLevel) on a logger that was in debug mode, then a         *)
(* suppressed Info message.                                                *)
C5_Witness ==
    /\ lastCall.op = "SetLevel"
    /\ lastCall.level = ErrorLevel
    /\ atom = ErrorLevel
    /\ currentLevel = ErrorLevel
    /\ ~logged.none
    /\ logged.lvl = InfoLevel
    /\ ~logged.emitted

(* C6: after Disable, until the next SetLevel or SetDebug call, the        *)
(* effective level is FatalLevel and messages at Debug, Info, Warn and     *)
(* Error level produce no output.                                          *)
C6_DisableSilences ==
    lastCall.op = "Disable" =>
        /\ atom = FatalLevel
        /\ \A lvl \in LogLevels : ~Enabled(lvl)
        /\ ~logged.none => ~logged.emitted

(* Disable on a logger with stacktraces, then an Error message.            *)
C6_Witness ==
    /\ lastCall.op = "Disable"
    /\ ~disableStackTrace
    /\ ~logged.none
    /\ logged.lvl = ErrorLevel
    /\ ~logged.emitted

(* C7: a Logger returned by New with no options has effective level        *)
(* InfoLevel (Debug suppressed, Info and above emitted), no stacktrace     *)
(* capturing and no color, on a terminal or not.                           *)
C7_DefaultLogger ==
    (lastCall.op = "New" /\ opts = <<>>) =>
        /\ atom = InfoLevel
        /\ ~Enabled(DebugLevel)
        /\ \A lvl \in InfoLevel..FatalLevel : Enabled(lvl)
        /\ disableStackTrace
        /\ addStack = NoStack
        /\ ~colored
        /\ ~logged.none => ~logged.stack

(* New() on a terminal, then an Error message without a stacktrace.        *)
C7_Witness ==
    /\ lastCall.op = "New"
    /\ opts = <<>>
    /\ isTerminal
    /\ encoding = Console
    /\ ~logged.none
    /\ logged.lvl = ErrorLevel
    /\ logged.emitted
    /\ ~logged.stack

(* The last option of a kind among the options given to New. *)
HasOption(name) == \E i \in 1..Len(opts) : opts[i].opt = name
LastOption(name) ==
    opts[CHOOSE i \in 1..Len(opts) :
            /\ opts[i].opt = name
            /\ \A j \in (i + 1)..Len(opts) : opts[j].opt # name]

C17_ColorResolution ==
    constructed =>
        (colored <=> /\ HasOption("WithColor")
                     /\ encoding = Console
                     /\ ~HasOption("WithFile"))

(* WithEncoder(Console) with WithColor, no terminal detected: color.       *)
C17_Witness ==
    /\ constructed
    /\ ~isTerminal
    /\ opts = <<[opt |-> "WithColor"], [opt |-> "WithEncoder", enc |-> Console]>>
    /\ colored

----------------------------------------------------------------------------
(* Properties of the Logger with the prometheus hook, checked under        *)
(* SpecProm.                                                               *)

(* C14: with WithPrometheus, after any sequence of log calls and level     *)
(* changes the counter of each level equals the number of log calls at     *)
(* that level made while the level was enabled, and the hook is still      *)
(* attached.                                                               *)
C14_CounterCountsEmitted ==
    (constructed /\ HasPrometheus(opts)) =>
        /\ hooked
        /\ \A lvl \in LogLevels : counter[lvl] = enabledLogs[lvl]

(* A logger with stacktraces rebuilt by SetDebug(true): the Info message   *)
(* and the Debug message logged afterwards are both counted.               *)
C14_Witness ==
    /\ constructed
    /\ HasPrometheus(opts)
    /\ ~disableStackTrace
    /\ lastCall = [op |-> "SetDebug", d |-> TRUE]
    /\ counter[DebugLevel] = 1
    /\ counter[InfoLevel] = 1
    /\ logged.lvl = DebugLevel

(* C18: WithPrometheus with an empty appName registers the counter as      *)
(* flash_log_messages_total.                                               *)
C18_EmptyAppNameUsesFlashPrefix ==
    (constructed /\ HasPrometheus(opts)
                 /\ LastOption("WithPrometheus").appName = "") =>
        metricName = "flash_log_messages_total"

====
